---- MODULE Spec2Model ----
(***************************************************************************)
(* A model of src/solve.js: exact fractions over BigInt, Lagrange          *)
(* interpolation at zero, the lazy enumeration of k-subsets, and the       *)
(* robust reconstruction of main (tally by value, winner, outliers).       *)
(*                                                                         *)
(* JavaScript arrays are 0-based; sequences here are 1-based.  Index       *)
(* VALUES (the entries of idx, the members of cMembers, the outliers) keep *)
(* the program's 0-based numbering; only POSITIONS in a sequence shift.    *)
(***************************************************************************)
EXTENDS Integers, Sequences, FiniteSets

VARIABLES
    data,       \* main: the parsed test case [n, k, entries], entries in Object.keys order
    pc,         \* main: "start" | "loop" | "tally" | "done" | "fatal"
    err,        \* main: the message class of the uncaught Error once pc = "fatal"
    points,     \* main: the decoded points, [x, y, label]
    gen,        \* the generator object of combinations(n, k)
    cFreq,      \* main: Map key -> count, as the sequence of its entries in insertion order
    cMembers,   \* main: Map key -> Set of indices, same representation
    bestC,      \* main: the winning key
    outliers,   \* main: the 0-based indices of the points pushed to outliers, in order
    log,        \* history: per subset tried by main, the combo and what interpolateAtZero did
    truth,      \* history: how the input was built (polynomial and perturbed index), if so
    out,        \* the arrays a consumer of combinations(n, k) has received so far
    ip,         \* one call of interpolateAtZero, stepped through its loops
    fr          \* one call of normalizeFrac / addFrac / mulFrac: operation, arguments, result

vars == <<data, pc, err, points, gen, cFreq, cMembers, bestC, outliers, log, truth, out, ip, fr>>

-----------------------------------------------------------------------------
(* Bounds of the model.                                                    *)

\* y values of the general inputs are 0..MaxY
MaxY == 3
\* combinations(m, k) is explored for 1 <= k <= m <= MaxM
MaxM == 6
\* an enumeration that runs past its arguments is followed until an index exceeds MaxIdx
MaxIdx == 5
\* coefficients of the polynomials points are drawn from: 0..MaxCoef
MaxCoef == 1
\* a perturbed y differs from the true one by 1..MaxDelta
MaxDelta == 1
\* numerators and denominators handed to the fraction operations: -MaxFrac..MaxFrac
MaxFrac == 3

-----------------------------------------------------------------------------
(* BigInt arithmetic.  BigInt division truncates toward zero and the       *)
(* remainder takes the sign of the dividend.                               *)

absBig(n) == IF n < 0 THEN -n ELSE n

divBig(a, b) ==
    IF (a < 0) = (b < 0) THEN absBig(a) \div absBig(b) ELSE -(absBig(a) \div absBig(b))

remBig(a, b) == a - b * divBig(a, b)

RECURSIVE gcdLoop(_, _)
gcdLoop(a, b) == IF b = 0 THEN a ELSE gcdLoop(b, remBig(a, b))

gcdBig(a, b) == gcdLoop(absBig(a), absBig(b))

-----------------------------------------------------------------------------
(* Exact fractions: a fraction is the pair <<num, den>>.                   *)

\* What a throwing call "returns": no fraction the code builds has den = 0.
Thrown == <<0, 0>>

normalizeFracNoSign(num, den) ==
    IF den = 0 THEN Thrown
    ELSE IF num = 0 THEN <<0, 1>>
    ELSE LET g == gcdBig(absBig(num), den)
         IN  <<divBig(num, g), divBig(den, g)>>

normalizeFrac(num, den) ==
    IF den = 0 THEN Thrown
    ELSE IF num = 0 THEN <<0, 1>>
    ELSE LET n2 == IF den < 0 THEN -num ELSE num
             d2 == IF den < 0 THEN -den ELSE den
             g  == gcdBig(absBig(n2), d2)
         IN  <<divBig(n2, g), divBig(d2, g)>>

addFrac(a, b) == normalizeFrac(a[1] * b[2] + b[1] * a[2], a[2] * b[2])

mulFrac(a, b) == normalizeFrac(a[1] * b[1], a[2] * b[2])

-----------------------------------------------------------------------------
(* Strings are sequences of one-character strings.                         *)

DecimalChars == <<"0", "1", "2", "3", "4", "5", "6", "7", "8", "9">>

LowerChars == <<"a", "b", "c", "d", "e", "f", "g", "h", "i", "j", "k", "l", "m",
                "n", "o", "p", "q", "r", "s", "t", "u", "v", "w", "x", "y", "z">>

UpperChars == <<"A", "B", "C", "D", "E", "F", "G", "H", "I", "J", "K", "L", "M",
                "N", "O", "P", "Q", "R", "S", "T", "U", "V", "W", "X", "Y", "Z">>

\* The position of ch in the table t, 0 when it is not there.
indexIn(t, ch) == IF \E p \in DOMAIN t : t[p] = ch THEN CHOOSE p \in DOMAIN t : t[p] = ch ELSE 0

toLowerCase(ch) == IF indexIn(UpperChars, ch) > 0 THEN LowerChars[indexIn(UpperChars, ch)] ELSE ch

\* charToVal: the digit's value, or -1 for the thrown "Invalid digit".
charToVal(ch) ==
    LET c == toLowerCase(ch)
    IN  IF indexIn(DecimalChars, c) > 0 THEN indexIn(DecimalChars, c) - 1
        ELSE IF indexIn(LowerChars, c) > 0 THEN 10 + (indexIn(LowerChars, c) - 1)
        ELSE -1

\* decodeBaseToBigInt: the loop from position p with accumulator acc; -1 for a throw.
RECURSIVE decodeFrom(_, _, _, _)
decodeFrom(str, base, p, acc) ==
    IF p > Len(str) THEN acc
    ELSE LET v == charToVal(str[p])
         IN  IF v < 0 \/ v >= base THEN -1
             ELSE decodeFrom(str, base, p + 1, acc * base + v)

decodeBaseToBigInt(str, base) == decodeFrom(str, base, 1, 0)

\* BigInt(string) on an optionally signed decimal literal; the empty string is 0n;
\* anything else is a SyntaxError, [ok |-> FALSE].
RECURSIVE decimalFrom(_, _, _)
decimalFrom(str, p, acc) ==
    IF p > Len(str) THEN acc
    ELSE IF indexIn(DecimalChars, str[p]) = 0 THEN -1
    ELSE decimalFrom(str, p + 1, acc * 10 + (indexIn(DecimalChars, str[p]) - 1))

StringToBigInt(str) ==
    IF str = <<>> THEN [ok |-> TRUE, val |-> 0]
    ELSE LET signed == str[1] \in {"-", "+"}
             body   == IF signed THEN Tail(str) ELSE str
             mag    == IF body = <<>> THEN -1 ELSE decimalFrom(body, 1, 0)
         IN  IF mag < 0 THEN [ok |-> FALSE, val |-> 0]
             ELSE [ok |-> TRUE, val |-> IF str[1] = "-" THEN -mag ELSE mag]

\* BigInt.prototype.toString(): the canonical decimal literal.
RECURSIVE digitsOf(_)
digitsOf(n) == IF n < 10 THEN <<DecimalChars[n + 1]>>
               ELSE Append(digitsOf(n \div 10), DecimalChars[(n % 10) + 1])

bigIntToString(c) == IF c < 0 THEN <<"-">> \o digitsOf(-c) ELSE digitsOf(c)

-----------------------------------------------------------------------------
(* interpolateAtZero, one loop step at a time.  A call is the record       *)
(* [points, i, j, li, sum, ph, st, ret]: ph is the place in the loops      *)
(* ("head": top of the outer loop, "inner": top of the inner loop), st is  *)
(* "run", "returned" or the class of the Error thrown.                     *)

\* What arr[i] is when i is not an index of arr.
Undefined == [undefined |-> TRUE]

isUndefined(p) == "undefined" \in DOMAIN p

ipInit(pts) ==
    [points |-> pts, i |-> 0, j |-> 0, li |-> <<1, 1>>, sum |-> <<0, 1>>,
     ph |-> "head", st |-> "run", ret |-> 0]

\* Lines 76-80: the final normalization, the integrality test, the division.
ipFinish(s) ==
    LET f == normalizeFrac(s.sum[1], s.sum[2])
    IN  IF remBig(f[1], f[2]) # 0 THEN [s EXCEPT !.st = "NonInteger"]
        ELSE [s EXCEPT !.st = "returned", !.ret = divBig(f[1], f[2])]

\* Lines 62-69: one pass of the inner loop body.
ipInnerNoNegate(s) ==
    LET xi == s.points[s.i + 1].x
        pj == s.points[s.j + 1]
    IN  IF s.i = s.j THEN [s EXCEPT !.j = s.j + 1]
        ELSE IF isUndefined(pj) THEN [s EXCEPT !.st = "TypeError"]
        ELSE LET f == normalizeFrac(pj.x, xi - pj.x)
             IN  IF f = Thrown THEN [s EXCEPT !.st = "ZeroDenominator"]
                 ELSE [s EXCEPT !.li = mulFrac(s.li, f), !.j = s.j + 1]

ipInner(s) ==
    LET xi == s.points[s.i + 1].x
        pj == s.points[s.j + 1]
    IN  IF s.i = s.j THEN [s EXCEPT !.j = s.j + 1]
        ELSE IF isUndefined(pj) THEN [s EXCEPT !.st = "TypeError"]
        ELSE LET f == normalizeFrac(-pj.x, xi - pj.x)
             IN  IF f = Thrown THEN [s EXCEPT !.st = "ZeroDenominator"]
                 ELSE [s EXCEPT !.li = mulFrac(s.li, f), !.j = s.j + 1]

\* Lines 71-73: the term of point i joins the sum; the outer loop advances.
ipTail(s) ==
    LET yi   == s.points[s.i + 1].y
        term == mulFrac(<<yi, 1>>, s.li)
    IN  [s EXCEPT !.sum = addFrac(s.sum, term), !.i = s.i + 1, !.ph = "head"]

\* Lines 57-61: the outer loop test, the reads of points[i], the fresh li.
ipHead(s) ==
    IF s.i >= Len(s.points) THEN ipFinish(s)
    ELSE IF isUndefined(s.points[s.i + 1]) THEN [s EXCEPT !.st = "TypeError"]
    ELSE [s EXCEPT !.li = <<1, 1>>, !.j = 0, !.ph = "inner"]

ipStep(s) ==
    IF s.ph = "head" THEN ipHead(s)
    ELSE IF s.j >= Len(s.points) THEN ipTail(s)
    ELSE ipInner(s)

RECURSIVE ipRun(_)
ipRun(s) == IF s.st # "run" THEN s ELSE ipRun(ipStep(s))

\* The call as a whole: [ok |-> TRUE, val |-> c], or ok = FALSE for a throw.
interpolateAtZero(pts) ==
    LET s == ipRun(ipInit(pts))
    IN  [ok |-> s.st = "returned", val |-> s.ret, why |-> s.st]

-----------------------------------------------------------------------------
(* function* combinations(n, k).  The generator object is                  *)
(* [n, k, idx, st]: st is "start" before the first next(), "suspended"     *)
(* at a yield, "done" after the return.                                    *)

genNew(n, k) == [n |-> n, k |-> k, idx |-> [p \in 1..k |-> p - 1], st |-> "start"]

\* Line 91: the scan from the right for an index below its maximum; 0-based i, -1 if none.
RECURSIVE scan(_, _, _, _)
scan(idx, last, k, i) ==
    IF i >= 0 /\ idx[i + 1] = last - (k - 1 - i) THEN scan(idx, last, k, i - 1) ELSE i

\* Lines 93-94: idx[i]++ and the reset of everything to its right.
bump(idx, i) ==
    [p \in DOMAIN idx |-> IF p < i + 1 THEN idx[p] ELSE idx[i + 1] + 1 + (p - (i + 1))]

\* One next() of the generator: the generator afterwards.
genNext(g) ==
    IF g.st = "start" THEN [g EXCEPT !.st = "suspended"]
    ELSE LET i == scan(g.idx, g.n - 1, g.k, g.k - 1)
         IN  IF i < 0 THEN [g EXCEPT !.st = "done"]
             ELSE [g EXCEPT !.idx = bump(g.idx, i)]

\* yield idx.slice(): the consumer's arrays so far, with a fresh copy of idx added.
receivedShared(arrs, g) == [p \in 1..(Len(arrs) + 1) |-> g.idx]

received(arrs, g) == Append(arrs, g.idx)

-----------------------------------------------------------------------------
(* main: the Maps cFreq and cMembers.  A Map iterates in insertion order,  *)
(* and set() on a present key keeps its place: a Map is the sequence of    *)
(* its entries [key, val].                                                 *)

Min(a, b) == IF a < b THEN a ELSE b

Range(f) == {f[p] : p \in DOMAIN f}

mapHas(m, key) == \E p \in DOMAIN m : m[p].key = key

mapGet(m, key) == m[CHOOSE p \in DOMAIN m : m[p].key = key].val

mapSet(m, key, val) ==
    IF mapHas(m, key)
    THEN [p \in DOMAIN m |-> IF m[p].key = key THEN [key |-> key, val |-> val] ELSE m[p]]
    ELSE Append(m, [key |-> key, val |-> val])

\* Line 140: combo.map(i => points[i]).
subsetOf(pts, combo) ==
    [p \in DOMAIN combo |-> IF combo[p] < Len(pts) THEN pts[combo[p] + 1] ELSE Undefined]

\* Line 149: cFreq.set(key, (cFreq.get(key) || 0) + 1).
freqAfterNoIncrement(freq, key) ==
    mapSet(freq, key, IF mapHas(freq, key) THEN mapGet(freq, key) ELSE 1)

freqAfter(freq, key) ==
    mapSet(freq, key, (IF mapHas(freq, key) THEN mapGet(freq, key) ELSE 0) + 1)

\* Lines 151-153: the subset's indices join the key's Set.
membersAfterReplace(members, key, combo) == mapSet(members, key, Range(combo))

membersAfter(members, key, combo) ==
    mapSet(members, key, (IF mapHas(members, key) THEN mapGet(members, key) ELSE {}) \cup Range(combo))

\* Lines 159-163: the scan of cFreq.entries() from position p; null is the empty string.
RECURSIVE bestFrom(_, _, _, _)
bestFrom(freq, p, best, bestCount) ==
    IF p > Len(freq) THEN best
    ELSE IF freq[p].val > bestCount THEN bestFrom(freq, p + 1, freq[p].key, freq[p].val)
    ELSE bestFrom(freq, p + 1, best, bestCount)

RECURSIVE bestFromLast(_, _, _, _)
bestFromLast(freq, p, best, bestCount) ==
    IF p > Len(freq) THEN best
    ELSE IF freq[p].val >= bestCount THEN bestFromLast(freq, p + 1, freq[p].key, freq[p].val)
    ELSE bestFromLast(freq, p + 1, best, bestCount)

pickBestLast(freq) == bestFromLast(freq, 1, <<>>, -1)

pickBest(freq) == bestFrom(freq, 1, <<>>, -1)

\* Lines 167-171: points[i] for every i < m outside okSet, in index order.
RECURSIVE outliersFromShort(_, _, _, _)
outliersFromShort(pts, m, okSet, i) ==
    IF i >= m - 1 THEN <<>>
    ELSE IF i \in okSet THEN outliersFromShort(pts, m, okSet, i + 1)
    ELSE <<pts[i + 1]>> \o outliersFromShort(pts, m, okSet, i + 1)

RECURSIVE outliersFrom(_, _, _, _)
outliersFrom(pts, m, okSet, i) ==
    IF i >= m THEN <<>>
    ELSE IF i \in okSet THEN outliersFrom(pts, m, okSet, i + 1)
    ELSE <<pts[i + 1]>> \o outliersFrom(pts, m, okSet, i + 1)

\* Lines 118-126: the decode loop from entry p; the first throw ends it.
RECURSIVE collectFrom(_, _, _)
collectFrom(entries, p, acc) ==
    IF p > Len(entries) THEN [ok |-> TRUE, why |-> "", points |-> acc]
    ELSE LET e == entries[p]
             x == StringToBigInt(e.key)
             y == decodeBaseToBigInt(e.value, e.base)
         IN  IF ~x.ok THEN [ok |-> FALSE, why |-> "SyntaxError", points |-> <<>>]
             ELSE IF y < 0 THEN [ok |-> FALSE, why |-> "InvalidDigit", points |-> <<>>]
             ELSE collectFrom(entries, p + 1, Append(acc, [x |-> x.val, y |-> y, label |-> e.key]))

\* Line 137.
mOf(pts, n) == Min(Len(pts), n)

\* Line 164: BigInt(bestC).
bestCBig == StringToBigInt(bestC).val

-----------------------------------------------------------------------------
(* main, as three steps: everything up to the loop, one turn of the        *)
(* for-of loop (the generator's next() and the loop body), and everything  *)
(* after the loop.                                                         *)

NoTruth == [coef |-> <<>>, bad |-> -1]

IdleGen == [n |-> 0, k |-> 0, idx |-> <<>>, st |-> "done"]

IdleIp == [points |-> <<>>, i |-> 0, j |-> 0, li |-> <<1, 1>>, sum |-> <<0, 1>>,
           ph |-> "head", st |-> "idle", ret |-> 0]

IdleFr == [op |-> "idle", a |-> <<0, 1>>, b |-> <<0, 1>>, res |-> <<0, 1>>, again |-> <<0, 1>>]

Start ==
    /\ pc = "start"
    /\ LET d == collectFrom(data.entries, 1, <<>>)
       IN  IF data.k < 2 \/ data.n < data.k
           THEN pc' = "fatal" /\ err' = "InvalidNK" /\ UNCHANGED <<points, gen>>
           ELSE IF ~d.ok
           THEN pc' = "fatal" /\ err' = d.why /\ UNCHANGED <<points, gen>>
           ELSE /\ pc' = "loop"
                /\ points' = d.points
                /\ gen' = genNew(mOf(d.points, data.n), data.k)
                /\ err' = err
    /\ UNCHANGED <<data, cFreq, cMembers, bestC, outliers, log, truth, out, ip, fr>>

Iterate ==
    /\ pc = "loop"
    /\ \A p \in DOMAIN gen.idx : gen.idx[p] <= MaxIdx
    /\ LET g == genNext(gen)
           r == interpolateAtZero(subsetOf(points, g.idx))
           key == bigIntToString(r.val)
       IN  /\ gen' = g
           /\ IF g.st = "done"
              THEN pc' = "tally" /\ UNCHANGED <<cFreq, cMembers, log>>
              ELSE /\ pc' = pc
                   /\ log' = Append(log, [combo |-> g.idx, ok |-> r.ok, val |-> r.val, why |-> r.why])
                   /\ IF r.ok
                      THEN /\ cFreq' = freqAfter(cFreq, key)
                           /\ cMembers' = membersAfter(cMembers, key, g.idx)
                      ELSE UNCHANGED <<cFreq, cMembers>>
    /\ UNCHANGED <<data, err, points, bestC, outliers, truth, out, ip, fr>>

Finish ==
    /\ pc = "tally"
    /\ IF Len(cFreq) = 0
       THEN pc' = "fatal" /\ err' = "NoSubset" /\ UNCHANGED <<bestC, outliers>>
       ELSE LET best == pickBest(cFreq)
                okSet == IF mapHas(cMembers, best) THEN mapGet(cMembers, best) ELSE {}
            IN  /\ pc' = "done"
                /\ bestC' = best
                /\ outliers' = outliersFrom(points, mOf(points, data.n), okSet, 0)
                /\ err' = err
    /\ UNCHANGED <<data, points, gen, cFreq, cMembers, log, truth, out, ip, fr>>

Next == Start \/ Iterate \/ Finish

-----------------------------------------------------------------------------
(* The test cases main is run on.  Object.keys lists the keys that are     *)
(* array indices first, in ascending numeric order, and the other keys     *)
(* after them in the order the file gives them.                            *)

isArrayIndex(key) ==
    /\ Len(key) > 0
    /\ \A p \in DOMAIN key : indexIn(DecimalChars, key[p]) > 0
    /\ (Len(key) > 1 => key[1] # "0")

ownKeyOrder(keys) ==
    \A p, q \in DOMAIN keys :
        p < q => /\ keys[p] # keys[q]
                 /\ (isArrayIndex(keys[q]) => isArrayIndex(keys[p]))
                 /\ (isArrayIndex(keys[p]) /\ isArrayIndex(keys[q])
                        => StringToBigInt(keys[p]).val < StringToBigInt(keys[q]).val)

keyLists(pool, maxLen) ==
    UNION {{ks \in [1..len -> pool] : ownKeyOrder(ks)} : len \in 0..maxLen}

entriesOf(ks, ys) ==
    [p \in DOMAIN ks |-> [key |-> ks[p], base |-> 10, value |-> digitsOf(ys[p])]]

SignedKeys == {<<"1">>, <<"2">>, <<"-", "1">>, <<"-", "2">>}

PaddedKeys == {<<"1">>, <<"2">>, <<"0", "1">>}

GeneralKeyLists == keyLists(SignedKeys, 4) \cup keyLists(PaddedKeys, 3)

OutlierVector ==
    <<[key |-> <<"1">>, base |-> 10, value |-> <<"4">>],
      [key |-> <<"2">>, base |-> 10, value |-> <<"7">>],
      [key |-> <<"3">>, base |-> 10, value |-> <<"1", "2">>],
      [key |-> <<"4">>, base |-> 10, value |-> <<"9", "9">>]>>

\* Hand-written test cases: other bases, an invalid digit, a key that is no integer,
\* and four points of which the last is off the parabola through the first three.
VectorEntries ==
    { <<[key |-> <<"1">>, base |-> 16, value |-> <<"F">>],
        [key |-> <<"2">>, base |-> 2, value |-> <<"1", "0", "1">>]>>,
      <<[key |-> <<"1">>, base |-> 16, value |-> <<"g">>],
        [key |-> <<"2">>, base |-> 10, value |-> <<"1">>]>>,
      <<[key |-> <<"1">>, base |-> 2, value |-> <<"1", "2">>],
        [key |-> <<"2">>, base |-> 10, value |-> <<"1">>]>>,
      <<[key |-> <<"1">>, base |-> 10, value |-> <<"1">>],
        [key |-> <<"x">>, base |-> 10, value |-> <<"1">>]>>,
      OutlierVector }

MainIdle ==
    /\ pc = "start" /\ err = "" /\ points = <<>> /\ gen = IdleGen
    /\ cFreq = <<>> /\ cMembers = <<>> /\ bestC = <<>> /\ outliers = <<>> /\ log = <<>>
    /\ out = <<>> /\ ip = IdleIp /\ fr = IdleFr

Init ==
    /\ \E n \in 1..4, k \in 1..3 :
          \/ \E ks \in GeneralKeyLists : \E ys \in [DOMAIN ks -> 0..MaxY] :
                data = [n |-> n, k |-> k, entries |-> entriesOf(ks, ys)]
          \/ \E es \in VectorEntries :
                data = [n |-> n, k |-> k, entries |-> es]
    /\ truth = NoTruth
    /\ MainIdle

Spec == Init /\ [][Next]_vars

-----------------------------------------------------------------------------
(* combinations(m, k) on its own, with a consumer that keeps every array   *)
(* it is handed.                                                           *)

CombNext ==
    /\ gen.st # "done"
    /\ gen' = genNext(gen)
    /\ out' = IF gen'.st = "done" THEN out ELSE received(out, gen')
    /\ UNCHANGED <<data, pc, err, points, cFreq, cMembers, bestC, outliers, log, truth, ip, fr>>

InitComb ==
    /\ \E m \in 1..MaxM : \E k \in 1..m : gen = genNew(m, k)
    /\ out = <<>>
    /\ data = [n |-> 0, k |-> 0, entries |-> <<>>] /\ truth = NoTruth
    /\ pc = "idle" /\ err = "" /\ points = <<>>
    /\ cFreq = <<>> /\ cMembers = <<>> /\ bestC = <<>> /\ outliers = <<>> /\ log = <<>>
    /\ ip = IdleIp /\ fr = IdleFr

SpecComb == InitComb /\ [][CombNext]_vars

-----------------------------------------------------------------------------
(* The fraction operations and interpolateAtZero on their own: either one  *)
(* call of a fraction operation on a pair of arguments, or one call of     *)
(* interpolateAtZero followed through its loops.                           *)

polyAt(coef, x) ==
    LET RECURSIVE horner(_)
        horner(p) == IF p > Len(coef) THEN 0 ELSE coef[p] + x * horner(p + 1)
    IN  horner(1)

distinctLists(S, len) == {xs \in [1..len -> S] : \A p, q \in 1..len : p # q => xs[p] # xs[q]}

pointsOn(coef, xs) == [p \in DOMAIN xs |-> [x |-> xs[p], y |-> polyAt(coef, xs[p]), label |-> <<>>]]

InterpX == -1..3

InitInterp ==
    /\ \/ /\ \E k \in 1..3 : \E coef \in [1..k -> -MaxCoef..MaxCoef], xs \in distinctLists(InterpX, k) :
                /\ truth = [coef |-> coef, bad |-> -1]
                /\ ip = ipInit(pointsOn(coef, xs))
          /\ fr = IdleFr
       \/ /\ \E xs \in [1..2 -> InterpX], ys \in [1..2 -> -MaxCoef..MaxCoef] :
                ip = ipInit([p \in 1..2 |-> [x |-> xs[p], y |-> ys[p], label |-> <<>>]])
          /\ truth = NoTruth
          /\ fr = IdleFr
       \/ /\ \E a, b \in (-MaxFrac..MaxFrac) \X (-MaxFrac..MaxFrac) :
                fr = [op |-> "args", a |-> a, b |-> b, res |-> <<0, 1>>, again |-> <<0, 1>>]
          /\ truth = NoTruth
          /\ ip = IdleIp
    /\ data = [n |-> 0, k |-> 0, entries |-> <<>>]
    /\ pc = "idle" /\ err = "" /\ points = <<>> /\ gen = IdleGen /\ out = <<>>
    /\ cFreq = <<>> /\ cMembers = <<>> /\ bestC = <<>> /\ outliers = <<>> /\ log = <<>>

InterpStep ==
    /\ ip.st = "run"
    /\ ip' = ipStep(ip)
    /\ UNCHANGED <<data, pc, err, points, gen, cFreq, cMembers, bestC, outliers, log, truth, out, fr>>

FracNormalize ==
    /\ fr.op = "args"
    /\ fr' = [fr EXCEPT !.op = "normalize", !.res = normalizeFrac(fr.a[1], fr.a[2])]
    /\ UNCHANGED <<data, pc, err, points, gen, cFreq, cMembers, bestC, outliers, log, truth, out, ip>>

FracAgain ==
    /\ fr.op = "normalize"
    /\ fr' = [fr EXCEPT !.op = "again", !.again = normalizeFrac(fr.res[1], fr.res[2])]
    /\ UNCHANGED <<data, pc, err, points, gen, cFreq, cMembers, bestC, outliers, log, truth, out, ip>>

FracAdd ==
    /\ fr.op = "args" /\ fr.a[2] # 0 /\ fr.b[2] # 0
    /\ fr' = [fr EXCEPT !.op = "add", !.res = addFrac(fr.a, fr.b)]
    /\ UNCHANGED <<data, pc, err, points, gen, cFreq, cMembers, bestC, outliers, log, truth, out, ip>>

FracMul ==
    /\ fr.op = "args" /\ fr.a[2] # 0 /\ fr.b[2] # 0
    /\ fr' = [fr EXCEPT !.op = "mul", !.res = mulFrac(fr.a, fr.b)]
    /\ UNCHANGED <<data, pc, err, points, gen, cFreq, cMembers, bestC, outliers, log, truth, out, ip>>

NextInterp == InterpStep \/ FracNormalize \/ FracAgain \/ FracAdd \/ FracMul

SpecInterp == InitInterp /\ [][NextInterp]_vars

-----------------------------------------------------------------------------
(* main on test cases built from a polynomial: m points on an integer      *)
(* polynomial of degree at most k-1, one of them with its y changed.       *)

RobustX == {-1, 1, 2, 3, 4, 0}

keyOf(x) == bigIntToString(x)

robustXLists(m) ==
    {xs \in distinctLists(RobustX, m) : ownKeyOrder([p \in 1..m |-> keyOf(xs[p])])}

robustCase(k, xs, coef, bad, delta) ==
    LET ys == [p \in DOMAIN xs |-> polyAt(coef, xs[p]) + (IF p = bad + 1 THEN delta ELSE 0)]
    IN  [data  |-> [n |-> Len(xs), k |-> k,
                    entries |-> [p \in DOMAIN xs |->
                                   [key |-> keyOf(xs[p]), base |-> 10,
                                    value |-> IF ys[p] >= 0 THEN digitsOf(ys[p]) ELSE <<"-">>]]],
         truth |-> [coef |-> coef, bad |-> bad],
         fits  |-> \A p \in DOMAIN xs : ys[p] >= 0]

RobustXLists == [m \in 3..5 |-> robustXLists(m)]

InitRobust ==
    /\ \E k \in 2..3 : \E xs \in RobustXLists[k + 1] \cup RobustXLists[k + 2] :
       \E coef \in [1..k -> 0..MaxCoef], bad \in 0..(Len(xs) - 1),
          delta \in (-MaxDelta..MaxDelta) \ {0} :
          LET c == robustCase(k, xs, coef, bad, delta)
          IN  c.fits /\ data = c.data /\ truth = c.truth
    /\ MainIdle

SpecRobust == InitRobust /\ [][Next]_vars

-----------------------------------------------------------------------------
(* What the claims are stated with.                                        *)

RECURSIVE Binomial(_, _)
Binomial(n, k) ==
    IF k = 0 THEN 1 ELSE IF n <= 0 THEN 0 ELSE Binomial(n - 1, k - 1) + Binomial(n - 1, k)

\* f is in lowest terms with a positive denominator, and zero is 0/1.
InLowestTerms(f) ==
    /\ f[2] > 0
    /\ \A d \in 2..f[2] : ~(f[2] % d = 0 /\ absBig(f[1]) % d = 0)
    /\ (f[1] = 0 => f[2] = 1)

StrictlyIncreasing(c) == \A p, q \in DOMAIN c : p < q => c[p] < c[q]

LexLess(a, b) ==
    \E p \in DOMAIN a : a[p] < b[p] /\ \A q \in 1..(p - 1) : a[q] = b[q]

\* The subsets main tried that returned v, as positions of log.
hits(v) == {p \in DOMAIN log : log[p].ok /\ log[p].val = v}

logValues == {log[p].val : p \in {q \in DOMAIN log : log[q].ok}}

tallyValues == {StringToBigInt(cFreq[p].key).val : p \in DOMAIN cFreq}

countOf(v) ==
    LET ps == {p \in DOMAIN cFreq : StringToBigInt(cFreq[p].key).val = v}
    IN  IF ps = {} THEN 0 ELSE cFreq[CHOOSE p \in ps : TRUE].val

membersOf(v) ==
    LET ps == {p \in DOMAIN cMembers : StringToBigInt(cMembers[p].key).val = v}
    IN  IF ps = {} THEN {} ELSE cMembers[CHOOSE p \in ps : TRUE].val

maxHits == CHOOSE c \in {Cardinality(hits(v)) : v \in logValues} :
               \A v \in logValues : Cardinality(hits(v)) <= c

tied == {v \in logValues : Cardinality(hits(v)) = maxHits}

firstSeen(v) == CHOOSE p \in hits(v) : \A q \in hits(v) : p <= q

reachedAt(v) == CHOOSE p \in hits(v) : Cardinality({q \in hits(v) : q <= p}) = maxHits

validated == pc \in {"loop", "tally", "done"} \/ (pc = "fatal" /\ err = "NoSubset")

robustOutcome ==
    /\ pc # "fatal"
    /\ pc = "done" => /\ bestCBig = truth.coef[1]
                      /\ outliers = <<points[truth.bad + 1]>>

-----------------------------------------------------------------------------
(* The claims.                                                             *)

\* C1, as stated: with m >= k+1 points of which all but one lie on an integer
\* polynomial of degree k-1, main reports the polynomial's value at 0 as the secret
\* and exactly the perturbed point as outlier.
C1_RobustFromKPlus1 == truth.bad >= 0 => robustOutcome

\* C1, amended: the same outcome, provided m >= k+2 and no point has x = 0.
C1_RobustFromKPlus2 ==
    (/\ truth.bad >= 0
     /\ pc # "start"
     /\ Len(points) >= data.k + 2
     /\ \A p \in DOMAIN points : points[p].x # 0) => robustOutcome

C1_Witness ==
    /\ pc = "done" /\ truth.bad = 0
    /\ Len(points) >= data.k + 2
    /\ \A p \in DOMAIN points : points[p].x # 0
    /\ log[1].ok /\ log[1].val # truth.coef[1]
    /\ Len(cFreq) >= 3

\* C2: a run that passed validation terminates: the enumeration hands main at most
\* C(m, k) subsets, m = min(decoded count, n), and main then ends with a secret, or,
\* exactly when no subset interpolated, with the no-valid-subset error.
C2_Terminates ==
    validated =>
        /\ Len(log) <= Binomial(mOf(points, data.n), data.k)
        /\ pc = "done" => logValues # {}
        /\ pc = "fatal" => logValues = {}

\* C3: combinations(m, k), 1 <= k <= m, yields the strictly increasing k-sequences
\* over 0..m-1 in lexicographic order from [0..k-1], each exactly once, C(m, k) in
\* all, and an array once yielded is not changed by the generator's later steps.
C3_LexEnumeration ==
    /\ \A p \in DOMAIN out :
          /\ Len(out[p]) = gen.k
          /\ \A q \in DOMAIN out[p] : out[p][q] \in 0..(gen.n - 1)
          /\ StrictlyIncreasing(out[p])
    /\ Len(out) >= 1 => out[1] = [q \in 1..gen.k |-> q - 1]
    /\ \A p \in 1..(Len(out) - 1) : LexLess(out[p], out[p + 1])
    /\ gen.st = "suspended" => out[Len(out)] = gen.idx
    /\ gen.st = "done" =>
          /\ Len(out) = Binomial(gen.n, gen.k)
          /\ \A S \in SUBSET (0..(gen.n - 1)) :
                Cardinality(S) = gen.k => \E p \in DOMAIN out : Range(out[p]) = S

C3_Witness == gen.st = "done" /\ gen.n = 5 /\ gen.k = 3 /\ Len(out) = 10

\* C4, as stated: the reported secret has the greatest count, and among values tied
\* at it, it is the one whose count reached that number first.
C4_FirstToReachWins ==
    pc = "done" => /\ bestCBig \in tied
                   /\ \A v \in tied \ {bestCBig} : reachedAt(bestCBig) < reachedAt(v)

\* C4, amended: the reported secret has the greatest count, and among values tied at
\* it, it is the one that entered the tally first (whose first successful subset
\* comes first in the enumeration).
C4_FirstSeenWins ==
    pc = "done" => /\ bestCBig \in tied
                   /\ \A v \in tied \ {bestCBig} : firstSeen(bestCBig) < firstSeen(v)

C4_Witness ==
    /\ pc = "done" /\ maxHits >= 2
    /\ \E v \in tied \ {bestCBig} : reachedAt(v) < reachedAt(bestCBig)

\* C5: k >= 1 points with distinct x on an integer polynomial of degree at most k-1:
\* interpolateAtZero returns the constant term, throws nothing, and returns the same
\* for the points in any order.
C5_ConstantTerm ==
    (ip.st # "idle" /\ truth.coef # <<>>) =>
        /\ ip.st \in {"run", "returned"}
        /\ ip.st = "returned" =>
              /\ ip.ret = truth.coef[1]
              /\ \A f \in distinctLists(DOMAIN ip.points, Len(ip.points)) :
                    LET r == interpolateAtZero([p \in DOMAIN f |-> ip.points[f[p]]])
                    IN  r.ok /\ r.val = ip.ret

C5_Witness ==
    /\ ip.st = "returned" /\ Len(ip.points) = 3
    /\ truth.coef # <<>> /\ truth.coef[3] # 0 /\ truth.coef[1] # 0
    /\ ip.ret = truth.coef[1]

\* C6, as stated: on (1,4),(2,7),(3,12),(4,99) with n=4, k=3, the three subsets
\* without index 3 yield 2, those with index 3 yield another value or fail, the
\* secret is 2 and the outliers are exactly (4,99).
C6_ThreeSubsetsYieldTwo ==
    (data = [n |-> 4, k |-> 3, entries |-> OutlierVector]) =>
        /\ pc # "fatal"
        /\ pc = "done" =>
              /\ Cardinality({p \in DOMAIN log : 3 \notin Range(log[p].combo)}) = 3
              /\ \A p \in DOMAIN log : 3 \notin Range(log[p].combo) => log[p].ok /\ log[p].val = 2
              /\ \A p \in DOMAIN log : 3 \in Range(log[p].combo) => ~log[p].ok \/ log[p].val # 2
              /\ bestCBig = 2
              /\ outliers = <<[x |-> 4, y |-> 99, label |-> <<"4">>]>>

\* C6, amended: the one subset without index 3 yields 3, those with index 3 yield
\* another value or fail, the secret is 3 and the outliers are exactly (4,99).
C6_OneSubsetYieldsThree ==
    (data = [n |-> 4, k |-> 3, entries |-> OutlierVector]) =>
        /\ pc # "fatal"
        /\ pc = "done" =>
              /\ Cardinality({p \in DOMAIN log : 3 \notin Range(log[p].combo)}) = 1
              /\ \A p \in DOMAIN log : 3 \notin Range(log[p].combo) => log[p].ok /\ log[p].val = 3
              /\ \A p \in DOMAIN log : 3 \in Range(log[p].combo) => ~log[p].ok \/ log[p].val # 3
              /\ bestCBig = 3
              /\ outliers = <<[x |-> 4, y |-> 99, label |-> <<"4">>]>>

C6_Witness ==
    /\ data = [n |-> 4, k |-> 3, entries |-> OutlierVector]
    /\ pc = "done" /\ Len(log) = 4

\* C7: after a successful run every decoded point is in a successful subset whose
\* value is the secret, or is listed as an outlier, whatever the declared n.
C7_EveryPointAccounted ==
    pc = "done" =>
        \A i \in DOMAIN points :
            \/ \E p \in hits(bestCBig) : (i - 1) \in Range(log[p].combo)
            \/ points[i] \in Range(outliers)

\* C8: normalizeFrac, addFrac and mulFrac return fractions in lowest terms with a
\* positive denominator, zero as 0/1; normalizeFrac of its own result is that
\* result; sum and li of interpolateAtZero are such fractions after every step.
C8_LowestTerms ==
    /\ fr.op \in {"add", "mul"} => InLowestTerms(fr.res)
    /\ (fr.op \in {"normalize", "again"} /\ fr.a[2] # 0) => InLowestTerms(fr.res)
    /\ (fr.op = "again" /\ fr.a[2] # 0) => fr.again = fr.res
    /\ ip.st # "idle" => InLowestTerms(ip.sum) /\ InLowestTerms(ip.li)

C8_Witness ==
    \/ fr.op = "again" /\ fr.a = <<2, -2>> /\ fr.res = <<-1, 1>>
    \/ fr.op = "add" /\ fr.a[2] < 0 /\ fr.b[1] = 0 /\ fr.b[2] < 0 /\ fr.res = <<-1, 2>>

\* C9: the points of every subset handed to interpolateAtZero have pairwise distinct
\* x, since distinct keys decode to distinct x.
C9_DistinctX ==
    /\ \A p, q \in DOMAIN points : p # q => points[p].x # points[q].x
    /\ \A e \in DOMAIN log : \A p, q \in DOMAIN log[e].combo :
          LET s == subsetOf(points, log[e].combo)
          IN  (p # q /\ ~isUndefined(s[p]) /\ ~isUndefined(s[q])) => s[p].x # s[q].x

\* C10: a subset whose interpolation throws leaves the tally as it was and the
\* enumeration goes on; the run ends with a secret if any subset succeeded; the
\* count of a value is the number of successful subsets with that value and its
\* member set is the union of their indices.
C10_TallyIsTheSuccesses ==
    /\ tallyValues = logValues
    /\ Len(cFreq) = Cardinality(logValues) /\ Len(cMembers) = Cardinality(logValues)
    /\ \A v \in logValues :
          /\ countOf(v) = Cardinality(hits(v))
          /\ membersOf(v) = UNION {Range(log[p].combo) : p \in hits(v)}
    /\ (pc \in {"tally", "done"} \/ err = "NoSubset") => Len(log) = Binomial(gen.n, gen.k)
    /\ (pc = "fatal" /\ validated) => logValues = {}
    /\ pc = "done" => bestCBig \in logValues

C10_Witness ==
    /\ pc = "done"
    /\ \E p \in DOMAIN log : log[p].why = "ZeroDenominator"
    /\ \E p \in DOMAIN log : p > 1 /\ log[p].ok /\ log[p].val # log[1].val
    /\ log[1].ok

====
